---- MODULE Spec2Model ----
(***************************************************************************)
(* Earthquake analytics backend: the classifier (classify_region,          *)
(* classify_zone), the loader (seed_lookup_tables, fetch_and_load) and the *)
(* query layer, over the three tables Region, SeismicZone and Earthquake.  *)
(*                                                                         *)
(* Coordinates are whole degrees.  Python's None is the integer None,      *)
(* which lies outside every coordinate, magnitude, depth and time domain.  *)
(* A place string is a sequence of tokens, "," being a token of its own.   *)
(* The feed answers every successful request of one behaviour with the     *)
(* same features (the configured window starts at a fixed date), so a      *)
(* second load run meets the events of the first again.                    *)
(***************************************************************************)
EXTENDS Integers, Sequences, FiniteSets, TLC

VARIABLES
    Region,        \* committed Region table: region_id -> row
    SeismicZone,   \* committed SeismicZone table: zone_id -> row
    Earthquake,    \* committed Earthquake table: quake_id (1..n) -> row
    pending,       \* rows inserted by the loader's open transaction
    pc,            \* position of the loader run
    feed,          \* what the USGS endpoint answers for the configured window
    features,      \* the batch the running loader fetched
    idx,           \* position of the for loop in features
    runs,          \* load runs started so far
    before,        \* Earthquake as it was when the current run started
    result,        \* what the last query-layer call returned
    lat,           \* classifier call: latitude argument
    lon,           \* classifier call: longitude argument
    calls,         \* classifier call: how often the pair was classified
    ret_region,    \* classifier call: the values classify_region returned
    ret_zone,      \* classifier call: the values classify_zone returned
    completed,     \* load runs that reached the final commit
    call,          \* the last query-layer or API call: its name and arguments
    response,      \* the HTTP answer to the last API call
    inflight,      \* concurrent query-layer calls: position and outcome of each
    sessions       \* the calls whose Session is open

vars == <<Region, SeismicZone, Earthquake, pending, pc, feed, features, idx,
          runs, before, result, lat, lon, calls, ret_region, ret_zone,
          completed, call, response, inflight, sessions>>

loaderVars == <<Region, SeismicZone, Earthquake, pending, pc, feed, features,
                idx, runs, before, result, completed>>

classifierVars == <<lat, lon, calls, ret_region, ret_zone>>

queryVars == <<call, response, inflight, sessions>>

None == -1000

\* ------------------------------------------------------------------ bounds

MaxLat == 90       \* latitudes -MaxLat..MaxLat
MaxLonWest == 180  \* longitudes -MaxLonWest..MaxLonEast
MaxLonEast == 540
MaxCalls == 2      \* repeated classifier calls on one input
MaxBatch == 3      \* features in one feed answer
MaxRuns == 2       \* load runs in one behaviour
MaxLegacy == 1     \* lookup ids 1..MaxLegacy may pre-exist with other values
MaxRows == 6       \* Earthquake rows of a store the queries are put to
MaxRequests == 3   \* query calls in flight at once

\* -------------------------------------------------------------- classifier

classify_region_9_before_7(lat0, lon0) ==
    LET l == IF lon0 > 180 THEN lon0 - 360 ELSE lon0 IN
    IF 30 <= lat0 /\ lat0 <= 42 /\ -130 <= l /\ l <= -110 THEN 1
    ELSE IF 50 <= lat0 /\ lat0 <= 72 /\ -180 <= l /\ l <= -130 THEN 2
    ELSE IF 30 <= lat0 /\ lat0 <= 65 /\ 135 <= l /\ l <= 170 THEN 3
    ELSE IF -60 <= lat0 /\ lat0 <= -15 /\ -80 <= l /\ l <= -65 THEN 4
    ELSE IF -15 <= lat0 /\ lat0 <= 15 /\ 95 <= l /\ l <= 155 THEN 5
    ELSE IF -60 <= lat0 /\ lat0 <= -10
            /\ ((155 <= l /\ l <= 180) \/ (-180 <= l /\ l <= -160)) THEN 6
    ELSE IF -40 <= lat0 /\ lat0 <= 70 /\ -50 <= l /\ l <= -10 THEN 9
    ELSE IF 30 <= lat0 /\ lat0 <= 46 /\ -10 <= l /\ l <= 40 THEN 7
    ELSE IF 20 <= lat0 /\ lat0 <= 45 /\ 60 <= l /\ l <= 115 THEN 8
    ELSE 10

classify_region_other_is_0(lat0, lon0) ==
    LET l == IF lon0 > 180 THEN lon0 - 360 ELSE lon0 IN
    IF 30 <= lat0 /\ lat0 <= 42 /\ -130 <= l /\ l <= -110 THEN 1
    ELSE IF 50 <= lat0 /\ lat0 <= 72 /\ -180 <= l /\ l <= -130 THEN 2
    ELSE IF 30 <= lat0 /\ lat0 <= 65 /\ 135 <= l /\ l <= 170 THEN 3
    ELSE IF -60 <= lat0 /\ lat0 <= -15 /\ -80 <= l /\ l <= -65 THEN 4
    ELSE IF -15 <= lat0 /\ lat0 <= 15 /\ 95 <= l /\ l <= 155 THEN 5
    ELSE IF -60 <= lat0 /\ lat0 <= -10
            /\ ((155 <= l /\ l <= 180) \/ (-180 <= l /\ l <= -160)) THEN 6
    ELSE IF 30 <= lat0 /\ lat0 <= 46 /\ -10 <= l /\ l <= 40 THEN 7
    ELSE IF 20 <= lat0 /\ lat0 <= 45 /\ 60 <= l /\ l <= 115 THEN 8
    ELSE IF -40 <= lat0 /\ lat0 <= 70 /\ -50 <= l /\ l <= -10 THEN 9
    ELSE 0

\* classify_region: longitude above 180 is shifted by 360 once, then the first
\* matching box of the if-chain decides.
classify_region(lat0, lon0) ==
    LET l == IF lon0 > 180 THEN lon0 - 360 ELSE lon0 IN
    IF 30 <= lat0 /\ lat0 <= 42 /\ -130 <= l /\ l <= -110 THEN 1
    ELSE IF 50 <= lat0 /\ lat0 <= 72 /\ -180 <= l /\ l <= -130 THEN 2
    ELSE IF 30 <= lat0 /\ lat0 <= 65 /\ 135 <= l /\ l <= 170 THEN 3
    ELSE IF -60 <= lat0 /\ lat0 <= -15 /\ -80 <= l /\ l <= -65 THEN 4
    ELSE IF -15 <= lat0 /\ lat0 <= 15 /\ 95 <= l /\ l <= 155 THEN 5
    ELSE IF -60 <= lat0 /\ lat0 <= -10
            /\ ((155 <= l /\ l <= 180) \/ (-180 <= l /\ l <= -160)) THEN 6
    ELSE IF 30 <= lat0 /\ lat0 <= 46 /\ -10 <= l /\ l <= 40 THEN 7
    ELSE IF 20 <= lat0 /\ lat0 <= 45 /\ 60 <= l /\ l <= 115 THEN 8
    ELSE IF -40 <= lat0 /\ lat0 <= 70 /\ -50 <= l /\ l <= -10 THEN 9
    ELSE 10

classify_zone_9_before_2(lat0, lon0) ==
    IF 30 <= lat0 /\ 2 * lat0 <= 145 /\ -150 <= lon0 /\ lon0 <= -110 THEN 1
    ELSE IF 45 <= lat0 /\ lat0 <= 60 /\ 145 <= lon0 /\ lon0 <= 175 THEN 9
    ELSE IF 30 <= lat0 /\ lat0 <= 50 /\ 130 <= lon0 /\ lon0 <= 160 THEN 2
    ELSE IF -60 <= lat0 /\ lat0 <= 5 /\ -90 <= lon0 /\ lon0 <= -60 THEN 3
    ELSE IF -15 <= lat0 /\ lat0 <= 10 /\ 90 <= lon0 /\ lon0 <= 150 THEN 4
    ELSE IF -50 <= lat0 /\ lat0 <= -30 /\ 160 <= lon0 /\ lon0 <= 180 THEN 5
    ELSE IF 25 <= lat0 /\ lat0 <= 50 /\ -10 <= lon0 /\ lon0 <= 40 THEN 6
    ELSE IF 20 <= lat0 /\ lat0 <= 40 /\ 70 <= lon0 /\ lon0 <= 100 THEN 7
    ELSE IF -60 <= lat0 /\ lat0 <= 60 /\ -40 <= lon0 /\ lon0 <= -10 THEN 8
    ELSE 10

\* The zone chain applied to the longitude shifted into -180..180.
classify_zone_normalizing(lat0, lon1) ==
    LET lon0 == IF lon1 > 180 THEN lon1 - 360 ELSE lon1 IN
    IF 30 <= lat0 /\ 2 * lat0 <= 145 /\ -150 <= lon0 /\ lon0 <= -110 THEN 1
    ELSE IF 30 <= lat0 /\ lat0 <= 50 /\ 130 <= lon0 /\ lon0 <= 160 THEN 2
    ELSE IF -60 <= lat0 /\ lat0 <= 5 /\ -90 <= lon0 /\ lon0 <= -60 THEN 3
    ELSE IF -15 <= lat0 /\ lat0 <= 10 /\ 90 <= lon0 /\ lon0 <= 150 THEN 4
    ELSE IF -50 <= lat0 /\ lat0 <= -30 /\ 160 <= lon0 /\ lon0 <= 180 THEN 5
    ELSE IF 25 <= lat0 /\ lat0 <= 50 /\ -10 <= lon0 /\ lon0 <= 40 THEN 6
    ELSE IF 20 <= lat0 /\ lat0 <= 40 /\ 70 <= lon0 /\ lon0 <= 100 THEN 7
    ELSE IF -60 <= lat0 /\ lat0 <= 60 /\ -40 <= lon0 /\ lon0 <= -10 THEN 8
    ELSE IF 45 <= lat0 /\ lat0 <= 60 /\ 145 <= lon0 /\ lon0 <= 175 THEN 9
    ELSE 10

\* classify_zone: no longitude shift; the upper latitude of box 1 is 72.5,
\* written 2 * lat <= 145 over whole degrees.
classify_zone(lat0, lon0) ==
    IF 30 <= lat0 /\ 2 * lat0 <= 145 /\ -150 <= lon0 /\ lon0 <= -110 THEN 1
    ELSE IF 30 <= lat0 /\ lat0 <= 50 /\ 130 <= lon0 /\ lon0 <= 160 THEN 2
    ELSE IF -60 <= lat0 /\ lat0 <= 5 /\ -90 <= lon0 /\ lon0 <= -60 THEN 3
    ELSE IF -15 <= lat0 /\ lat0 <= 10 /\ 90 <= lon0 /\ lon0 <= 150 THEN 4
    ELSE IF -50 <= lat0 /\ lat0 <= -30 /\ 160 <= lon0 /\ lon0 <= 180 THEN 5
    ELSE IF 25 <= lat0 /\ lat0 <= 50 /\ -10 <= lon0 /\ lon0 <= 40 THEN 6
    ELSE IF 20 <= lat0 /\ lat0 <= 40 /\ 70 <= lon0 /\ lon0 <= 100 THEN 7
    ELSE IF -60 <= lat0 /\ lat0 <= 60 /\ -40 <= lon0 /\ lon0 <= -10 THEN 8
    ELSE IF 45 <= lat0 /\ lat0 <= 60 /\ 145 <= lon0 /\ lon0 <= 175 THEN 9
    ELSE 10

\* ------------------------------------------------------------ lookup seeds

\* The rows seed_lookup_tables offers to Region, by region_id.
RegionSeed ==
    <<[region_name |-> "California Margin", country |-> "USA",
       population |-> 39200000],
      [region_name |-> "Alaska-Aleutian Margin", country |-> "USA",
       population |-> 733000],
      [region_name |-> "NW Pacific Margin (Japan/Russia)",
       country |-> "Japan + Russian Far East",
       population |-> 125700000 + 6300000],
      [region_name |-> "Chile Subduction Zone", country |-> "Chile",
       population |-> 19600000],
      [region_name |-> "Indonesia-Philippines-PNG Arc",
       country |-> "Indonesia + Philippines + PNG",
       population |-> 277500000 + 117300000 + 9700000],
      [region_name |-> "New Zealand & SW Pacific",
       country |-> "NZ + Fiji + Tonga + Samoa",
       population |-> 5200000 + 940000 + 107000 + 225000],
      [region_name |-> "Mediterranean Region",
       country |-> "Turkey + Greece + Italy + Balkans",
       population |-> 85000000 + 10300000 + 58900000 + 18000000],
      [region_name |-> "Himalaya-Central Asia Belt",
       country |-> "India North + Nepal + Pakistan North + China West",
       population |-> 600000000 + 30300000 + 70000000 + 95000000],
      [region_name |-> "North Mid-Atlantic Ridge", country |-> "Oceanic",
       population |-> None],
      [region_name |-> "Other", country |-> "Various", population |-> None]>>

\* The rows seed_lookup_tables offers to SeismicZone, by zone_id.
ZoneSeed ==
    <<[zone_name |-> "US Pacific Subduction Margin", risk_level |-> 5],
      [zone_name |-> "Japan Trench Zone", risk_level |-> 5],
      [zone_name |-> "Andean Subduction Zone", risk_level |-> 5],
      [zone_name |-> "Sunda Arc (Indonesia)", risk_level |-> 5],
      [zone_name |-> "New Zealand Plate Boundary", risk_level |-> 4],
      [zone_name |-> "Mediterranean Collision/Subduction", risk_level |-> 4],
      [zone_name |-> "Himalayan Collision Belt", risk_level |-> 4],
      [zone_name |-> "Mid-Atlantic Ridge", risk_level |-> 3],
      [zone_name |-> "Kuril-Kamchatka Subduction Zone", risk_level |-> 5],
      [zone_name |-> "Other Oceanic Zone", risk_level |-> 2]>>

\* INSERT OR REPLACE instead of INSERT OR IGNORE.
insert_or_replace(table, seed) ==
    [id \in DOMAIN table \cup DOMAIN seed |->
        IF id \in DOMAIN seed THEN seed[id] ELSE table[id]]

\* INSERT OR IGNORE of every seed row: a row is added when its primary key is
\* absent, and an existing row is left as it is.
insert_or_ignore(table, seed) ==
    [id \in DOMAIN table \cup DOMAIN seed |->
        IF id \in DOMAIN table THEN table[id] ELSE seed[id]]

\* ------------------------------------------------------------------- store

\* A lookup row left in the store by an earlier variant of the seed.
LegacyRegion(id) ==
    [region_name |-> "Legacy region", country |-> "Unknown", population |-> id]

LegacyZone(id) == [zone_name |-> "Legacy zone", risk_level |-> 1]

\* get_connection: a sqlite3 connection in its default mode: the first INSERT
\* opens a transaction, commit() makes its rows durable, and a connection
\* dropped without commit() leaves none of them.
get_connection == [autocommit |-> FALSE]

\* -------------------------------------------------------------------- feed

Feature(has, coords, mag, time, place) ==
    [has_coordinates |-> has, coordinates |-> coords, mag |-> mag,
     time |-> time, place |-> place]

\* geometry.coordinates = [lon, lat, depth_km], properties.{mag, time, place}.
FeedFeatures ==
    { Feature(TRUE, <<-120, 40, 10>>, 5, 1500, <<"Ridgecrest", ",", "CA">>),
      Feature(TRUE, <<240, 40, 35>>, 6, 2999, <<>>),
      Feature(FALSE, <<>>, 5, 1500, <<>>),
      Feature(TRUE, <<-120, 40>>, 5, 1500, <<>>),
      Feature(TRUE, <<-120, 40, 10>>, None, 1500, <<>>),
      Feature(TRUE, <<-120, 40, 10>>, 5, None, <<>>),
      Feature(TRUE, <<-120, None, 10>>, 5, 1500, <<>>),
      Feature(TRUE, <<None, 40, 10>>, 5, 1500, <<>>),
      Feature(TRUE, <<-120, 40, None>>, 5, 1500, <<>>) }

RECURSIVE SeqsUpTo(_, _)
SeqsUpTo(S, n) ==
    IF n = 0 THEN {<<>>}
    ELSE LET shorter == SeqsUpTo(S, n - 1) IN
         shorter \cup {Append(s, x) : s \in {t \in shorter : Len(t) = n - 1},
                                      x \in S}

\* ------------------------------------------------------------------ loader

\* place_text.replace(",", " - ")
RECURSIVE replace_commas(_)
replace_commas(place_text) ==
    IF place_text = <<>> THEN <<>>
    ELSE <<IF Head(place_text) = "," THEN " - " ELSE Head(place_text)>>
         \o replace_commas(Tail(place_text))

\* The mag check is missing from the second test.
skip_record_without_mag_check(feature) ==
    IF ~feature.has_coordinates \/ Len(feature.coordinates) < 3 THEN TRUE
    ELSE \/ feature.time = None
         \/ feature.coordinates[2] = None
         \/ feature.coordinates[1] = None

\* The two `continue` tests of the loop: coordinates absent or shorter than 3,
\* or mag, time, lat or lon None.
skip_record(feature) ==
    IF ~feature.has_coordinates \/ Len(feature.coordinates) < 3 THEN TRUE
    ELSE \/ feature.mag = None
         \/ feature.time = None
         \/ feature.coordinates[2] = None
         \/ feature.coordinates[1] = None

\* region_id taken from the zone classifier.
earthquake_row_region_from_zone(feature) ==
    LET lon0 == feature.coordinates[1]
        lat0 == feature.coordinates[2]
    IN  [datetime |-> feature.time \div 1000,
         magnitude |-> feature.mag,
         depth_km |-> feature.coordinates[3],
         latitude |-> lat0,
         longitude |-> lon0,
         place |-> replace_commas(IF feature.place = <<>>
                                  THEN <<"Unknown location">>
                                  ELSE feature.place),
         region_id |-> classify_zone(lat0, lon0),
         zone_id |-> classify_zone(lat0, lon0)]

\* The parameter tuple of the INSERT: the time in whole seconds (the
\* "%Y-%m-%d %H:%M:%S" rendering of time_ms / 1000 keeps exactly the second),
\* the raw coordinates, the cleaned place and the two classifications.
earthquake_row(feature) ==
    LET lon0 == feature.coordinates[1]
        lat0 == feature.coordinates[2]
    IN  [datetime |-> feature.time \div 1000,
         magnitude |-> feature.mag,
         depth_km |-> feature.coordinates[3],
         latitude |-> lat0,
         longitude |-> lon0,
         place |-> replace_commas(IF feature.place = <<>>
                                  THEN <<"Unknown location">>
                                  ELSE feature.place),
         region_id |-> classify_region(lat0, lon0),
         zone_id |-> classify_zone(lat0, lon0)]

\* seed_lookup_tables with INSERT OR REPLACE.
seed_lookup_tables_replacing ==
    /\ Region' = insert_or_replace(Region, RegionSeed)
    /\ SeismicZone' = insert_or_replace(SeismicZone, ZoneSeed)

\* Only the SeismicZone rows are seeded.
seed_lookup_tables_zones_only ==
    /\ Region' = Region
    /\ SeismicZone' = insert_or_ignore(SeismicZone, ZoneSeed)

\* seed_lookup_tables: both executemany calls, then conn.commit().
seed_lookup_tables ==
    /\ Region' = insert_or_ignore(Region, RegionSeed)
    /\ SeismicZone' = insert_or_ignore(SeismicZone, ZoneSeed)

\* fetch_and_load up to the request: open the connection, seed and commit.
Seed ==
    /\ pc = "start"
    /\ seed_lookup_tables
    /\ before' = Earthquake
    /\ runs' = runs + 1
    /\ pc' = "seeded"
    /\ UNCHANGED <<Earthquake, pending, feed, features, idx, result>>
    /\ UNCHANGED classifierVars
    /\ UNCHANGED queryVars
    /\ UNCHANGED completed

\* The seed shares the transaction the failure drops: only rows that were in
\* the store before the seed survive.
RequestFailsLosingSeed ==
    /\ pc = "seeded"
    /\ pc' = "request_failed"
    /\ Region' = [id \in {i \in DOMAIN Region : Region[i] = LegacyRegion(i)} |->
                     Region[id]]
    /\ SeismicZone' = [id \in {i \in DOMAIN SeismicZone :
                                  SeismicZone[i] = LegacyZone(i)} |->
                          SeismicZone[id]]
    /\ UNCHANGED <<Earthquake, pending, feed, features, idx, runs, before,
                   result>>
    /\ UNCHANGED classifierVars
    /\ UNCHANGED queryVars
    /\ UNCHANGED completed

\* requests.get raises, or raise_for_status raises on an HTTP error status:
\* the exception leaves fetch_and_load.
RequestFails ==
    /\ pc = "seeded"
    /\ pc' = "request_failed"
    /\ UNCHANGED <<Region, SeismicZone, Earthquake, pending, feed, features,
                   idx, runs, before, result>>
    /\ UNCHANGED classifierVars
    /\ UNCHANGED queryVars
    /\ UNCHANGED completed

\* The request succeeds: features = data.get("features", []).
RequestOk ==
    /\ pc = "seeded"
    /\ features' = feed
    /\ idx' = 1
    /\ pc' = "loop"
    /\ UNCHANGED <<Region, SeismicZone, Earthquake, pending, feed, runs,
                   before, result>>
    /\ UNCHANGED classifierVars
    /\ UNCHANGED queryVars
    /\ UNCHANGED completed

\* One pass of the loop that ends in `continue`.
SkipFeature ==
    /\ pc = "loop"
    /\ idx <= Len(features)
    /\ skip_record(features[idx])
    /\ idx' = idx + 1
    /\ UNCHANGED <<Region, SeismicZone, Earthquake, pending, pc, feed,
                   features, runs, before, result>>
    /\ UNCHANGED classifierVars
    /\ UNCHANGED queryVars
    /\ UNCHANGED completed

\* conn.commit() after every INSERT.
InsertFeatureCommitting ==
    /\ pc = "loop"
    /\ idx <= Len(features)
    /\ ~skip_record(features[idx])
    /\ features[idx].coordinates[3] # None
    /\ Earthquake' = Earthquake \o pending \o <<earthquake_row(features[idx])>>
    /\ pending' = <<>>
    /\ idx' = idx + 1
    /\ UNCHANGED <<Region, SeismicZone, pc, feed, features, runs, before,
                   result>>
    /\ UNCHANGED classifierVars
    /\ UNCHANGED queryVars
    /\ UNCHANGED completed

\* The insert is dropped when the store already holds an equal row.
InsertFeatureOnce ==
    /\ pc = "loop"
    /\ idx <= Len(features)
    /\ ~skip_record(features[idx])
    /\ features[idx].coordinates[3] # None
    /\ pending' = IF \E k \in DOMAIN Earthquake :
                        Earthquake[k] = earthquake_row(features[idx])
                  THEN pending
                  ELSE Append(pending, earthquake_row(features[idx]))
    /\ idx' = idx + 1
    /\ UNCHANGED <<Region, SeismicZone, Earthquake, pc, feed, features, runs,
                   before, result>>
    /\ UNCHANGED classifierVars
    /\ UNCHANGED queryVars
    /\ UNCHANGED completed

\* One pass of the loop that reaches cur.execute: the row joins the open
\* transaction.
InsertFeature ==
    /\ pc = "loop"
    /\ idx <= Len(features)
    /\ ~skip_record(features[idx])
    /\ features[idx].coordinates[3] # None
    /\ IF get_connection.autocommit
       THEN /\ Earthquake' = Append(Earthquake, earthquake_row(features[idx]))
            /\ pending' = pending
       ELSE /\ pending' = Append(pending, earthquake_row(features[idx]))
            /\ Earthquake' = Earthquake
    /\ idx' = idx + 1
    /\ UNCHANGED <<Region, SeismicZone, pc, feed, features, runs, before,
                   result>>
    /\ UNCHANGED classifierVars
    /\ UNCHANGED queryVars
    /\ UNCHANGED completed

\* One pass of the loop in which float(depth_km) raises TypeError on None: the
\* exception leaves fetch_and_load, conn.commit() is never reached and the
\* open transaction is dropped with the connection.
FailFeature ==
    /\ pc = "loop"
    /\ idx <= Len(features)
    /\ ~skip_record(features[idx])
    /\ features[idx].coordinates[3] = None
    /\ pending' = <<>>
    /\ pc' = "crashed"
    /\ UNCHANGED <<Region, SeismicZone, Earthquake, feed, features, idx, runs,
                   before, result>>
    /\ UNCHANGED classifierVars
    /\ UNCHANGED queryVars
    /\ UNCHANGED completed

\* Each row is committed on its own: a commit of the first pending row while
\* others are still pending.
CommitRowByRow ==
    /\ pc = "loop"
    /\ idx > Len(features)
    /\ IF Len(pending) > 1
       THEN /\ Earthquake' = Append(Earthquake, Head(pending))
            /\ pending' = Tail(pending)
            /\ UNCHANGED <<pc, completed>>
       ELSE /\ Earthquake' = Earthquake \o pending
            /\ pending' = <<>>
            /\ pc' = "done"
            /\ completed' = completed + 1
    /\ UNCHANGED <<Region, SeismicZone, feed, features, idx, runs, before,
                   result>>
    /\ UNCHANGED classifierVars
    /\ UNCHANGED queryVars

\* The loop is over: conn.commit(), conn.close().
Commit ==
    /\ pc = "loop"
    /\ idx > Len(features)
    /\ Earthquake' = Earthquake \o pending
    /\ pending' = <<>>
    /\ pc' = "done"
    /\ UNCHANGED <<Region, SeismicZone, feed, features, idx, runs, before,
                   result>>
    /\ UNCHANGED classifierVars
    /\ UNCHANGED queryVars
    /\ completed' = completed + 1

\* The script is started again after a run has ended.
NextRun ==
    /\ pc \in {"done", "request_failed", "crashed"}
    /\ runs < MaxRuns
    /\ pc' = "start"
    /\ features' = <<>>
    /\ idx' = 1
    /\ UNCHANGED <<Region, SeismicZone, Earthquake, pending, feed, runs,
                   before, result>>
    /\ UNCHANGED classifierVars
    /\ UNCHANGED queryVars
    /\ UNCHANGED completed

\* ------------------------------------------------------------- query layer

RECURSIVE order_by_desc(_)
order_by_desc(S) ==
    IF S = {} THEN <<>>
    ELSE LET m == CHOOSE x \in S : \A y \in S : y <= x IN
         <<m>> \o order_by_desc(S \ {m})

\* get_quakes_in_region: Earthquake joined to Region on region_id, filtered to
\* one region, newest first.  The list is a sequence of groups, one per
\* datetime, since SQL leaves the order of rows of equal datetime open.
get_quakes_in_region(region_id) ==
    LET joined == {k \in DOMAIN Earthquake :
                      /\ Earthquake[k].region_id \in DOMAIN Region
                      /\ Earthquake[k].region_id = region_id}
        times == order_by_desc({Earthquake[k].datetime : k \in joined})
    IN  [g \in DOMAIN times |->
            {[quake_id |-> k,
              datetime |-> Earthquake[k].datetime,
              magnitude |-> Earthquake[k].magnitude,
              depth_km |-> Earthquake[k].depth_km,
              latitude |-> Earthquake[k].latitude,
              longitude |-> Earthquake[k].longitude,
              place |-> Earthquake[k].place,
              region_name |-> Region[Earthquake[k].region_id].region_name] :
             k \in {j \in joined : Earthquake[j].datetime = times[g]}}]

\* The region ids requests ask for: a region that gets quakes, a seeded region
\* that gets none, and an id that is no Region row.
QueryRegionIds == {1, 3, 10, 11}

\* A request to /regions/{region_id}/earthquakes, at any moment of a load run.
QuakesInRegion ==
    /\ \E region_id \in QueryRegionIds :
          result' = get_quakes_in_region(region_id)
    /\ UNCHANGED <<Region, SeismicZone, Earthquake, pending, pc, feed,
                   features, idx, runs, before>>
    /\ UNCHANGED classifierVars
    /\ UNCHANGED queryVars
    /\ UNCHANGED completed

\* ------------------------------------------- query layer: the other queries

RECURSIVE Perms(_)
Perms(S) ==
    IF S = {} THEN {<<>>}
    ELSE UNION {{<<x>> \o p : p \in Perms(S \ {x})} : x \in S}

\* The lists ORDER BY count DESC may produce of the group rows S: SQL leaves
\* the order of groups of equal count open.
order_by_count_desc(S) ==
    {p \in Perms(S) :
        \A i \in 1..(Len(p) - 1) : p[i].quake_count >= p[i + 1].quake_count}

RECURSIVE SumOf(_, _)
SumOf(f, S) ==
    IF S = {} THEN 0
    ELSE LET x == CHOOSE y \in S : TRUE IN f[x] + SumOf(f, S \ {x})

\* AVG(magnitude) and MAX(magnitude) over the Earthquake rows ks.  The average
\* is kept as the exact quotient sum / count.
avg_magnitude_of(ks) ==
    [sum |-> SumOf([k \in ks |-> Earthquake[k].magnitude], ks),
     count |-> Cardinality(ks)]

max_magnitude_of(ks) ==
    LET k == CHOOSE i \in ks :
                \A j \in ks : Earthquake[j].magnitude <= Earthquake[i].magnitude
    IN  Earthquake[k].magnitude

\* Earthquake JOIN Region, and Earthquake JOIN SeismicZone, on the foreign keys.
region_join == {k \in DOMAIN Earthquake : Earthquake[k].region_id \in DOMAIN Region}

zone_join == {k \in DOMAIN Earthquake : Earthquake[k].zone_id \in DOMAIN SeismicZone}

quakes_of_region(rid) == {k \in region_join : Earthquake[k].region_id = rid}

\* A group row with a null average where the join is empty.
get_avg_magnitude_in_region_null_filled(region_id) ==
    LET ks == quakes_of_region(region_id) IN
    IF ks = {}
    THEN <<[region_id |-> region_id,
            region_name |-> IF region_id \in DOMAIN Region
                            THEN Region[region_id].region_name ELSE None,
            avg_magnitude |-> None]>>
    ELSE <<[region_id |-> region_id,
            region_name |-> Region[region_id].region_name,
            avg_magnitude |-> avg_magnitude_of(ks)]>>

\* get_avg_magnitude_in_region: one group row for the region, none when the
\* join is empty.
get_avg_magnitude_in_region(region_id) ==
    LET ks == quakes_of_region(region_id) IN
    IF ks = {} THEN <<>>
    ELSE <<[region_id |-> region_id,
            region_name |-> Region[region_id].region_name,
            avg_magnitude |-> avg_magnitude_of(ks)]>>

\* count_quakes_near_location: COUNT over the rows BETWEEN the two ranges.
count_quakes_near_location(lat_center, lon_center, lat_delta, lon_delta) ==
    LET lat_min == lat_center - lat_delta
        lat_max == lat_center + lat_delta
        lon_min == lon_center - lon_delta
        lon_max == lon_center + lon_delta
    IN  <<[quake_count |->
             Cardinality({k \in DOMAIN Earthquake :
                 /\ lat_min <= Earthquake[k].latitude
                 /\ Earthquake[k].latitude <= lat_max
                 /\ lon_min <= Earthquake[k].longitude
                 /\ Earthquake[k].longitude <= lon_max})]>>

\* The first n elements of a list (LIMIT n).
limit_to(p, n) == SubSeq(p, 1, IF Len(p) < n THEN Len(p) ELSE n)

\* get_most_active_regions: the lists the call may return.
get_most_active_regions(top_n) ==
    LET groups == {[region_id |-> rid,
                    region_name |-> Region[rid].region_name,
                    country |-> Region[rid].country,
                    quake_count |-> Cardinality(quakes_of_region(rid))] :
                   rid \in {Earthquake[k].region_id : k \in region_join}}
    IN  {limit_to(p, top_n) : p \in order_by_count_desc(groups)}

\* ORDER BY magnitude DESC, datetime DESC of the Earthquake rows ks, as the
\* sequence of the groups of rows equal in both.
RECURSIVE order_by_magnitude_datetime_desc(_)
order_by_magnitude_datetime_desc(ks) ==
    IF ks = {} THEN <<>>
    ELSE LET top == CHOOSE i \in ks : \A j \in ks :
                       \/ Earthquake[j].magnitude < Earthquake[i].magnitude
                       \/ /\ Earthquake[j].magnitude = Earthquake[i].magnitude
                          /\ Earthquake[j].datetime <= Earthquake[i].datetime
             ties == {j \in ks : /\ Earthquake[j].magnitude = Earthquake[top].magnitude
                                 /\ Earthquake[j].datetime = Earthquake[top].datetime}
         IN  <<ties>> \o order_by_magnitude_datetime_desc(ks \ ties)

\* LIMIT n over a sequence of groups: whole groups while they fit, then any n
\* remaining rows of the next group.
RECURSIVE limit_groups(_, _)
limit_groups(groups, n) ==
    IF groups = <<>> \/ n <= 0 THEN {<<>>}
    ELSE IF Cardinality(Head(groups)) <= n
         THEN {<<Head(groups)>> \o rest :
                 rest \in limit_groups(Tail(groups), n - Cardinality(Head(groups)))}
         ELSE {<<part>> : part \in {t \in SUBSET Head(groups) : Cardinality(t) = n}}

quake_record(k) ==
    [quake_id |-> k,
     datetime |-> Earthquake[k].datetime,
     magnitude |-> Earthquake[k].magnitude,
     depth_km |-> Earthquake[k].depth_km,
     latitude |-> Earthquake[k].latitude,
     longitude |-> Earthquake[k].longitude,
     place |-> Earthquake[k].place]

\* get_high_magnitude_quakes: dates are days since the epoch, so the two
\* timestamps are the first and the last second of a day.
get_high_magnitude_quakes(min_magnitude, start_date, end_date, limit) ==
    LET start_ts == start_date * 86400
        end_ts == end_date * 86400 + 86399
        ks == {k \in DOMAIN Earthquake :
                  /\ Earthquake[k].magnitude >= min_magnitude
                  /\ start_ts <= Earthquake[k].datetime
                  /\ Earthquake[k].datetime <= end_ts}
    IN  {[g \in DOMAIN gs |-> {quake_record(k) : k \in gs[g]}] :
            gs \in limit_groups(order_by_magnitude_datetime_desc(ks), limit)}

\* HAVING count >= min_quakes.
get_regions_with_min_quakes_at_least(min_quakes) ==
    LET groups == {[region_id |-> rid,
                    region_name |-> Region[rid].region_name,
                    quake_count |-> Cardinality(quakes_of_region(rid))] :
                   rid \in {Earthquake[k].region_id : k \in region_join}}
    IN  order_by_count_desc({g \in groups : g.quake_count >= min_quakes})

\* get_regions_with_min_quakes: the lists the call may return.
get_regions_with_min_quakes(min_quakes) ==
    LET groups == {[region_id |-> rid,
                    region_name |-> Region[rid].region_name,
                    quake_count |-> Cardinality(quakes_of_region(rid))] :
                   rid \in {Earthquake[k].region_id : k \in region_join}}
    IN  order_by_count_desc({g \in groups : g.quake_count > min_quakes})

\* The average taken over all ten Region rows, regions without quakes counting 0.
get_regions_above_average_quakes_zero_filled ==
    LET ids == {Earthquake[k].region_id : k \in DOMAIN Earthquake}
        count == [rid \in ids |->
                    Cardinality({k \in DOMAIN Earthquake :
                                    Earthquake[k].region_id = rid})]
        total == SumOf(count, ids)
        n == Cardinality(DOMAIN Region)
    IN  order_by_count_desc(
            {[region_id |-> rid,
              region_name |-> Region[rid].region_name,
              quake_count |-> count[rid],
              avg_quakes |-> [sum |-> total, count |-> n]] :
             rid \in {r \in ids \cap DOMAIN Region : count[r] * n > total}})

\* get_regions_above_average_quakes: region_counts groups Earthquake alone,
\* avg_count averages those counts, and the final select joins Region and keeps
\* quake_count > avg_quakes (count * n > total, n the number of counts).
get_regions_above_average_quakes ==
    LET ids == {Earthquake[k].region_id : k \in DOMAIN Earthquake}
        count == [rid \in ids |->
                    Cardinality({k \in DOMAIN Earthquake :
                                    Earthquake[k].region_id = rid})]
        total == SumOf(count, ids)
        n == Cardinality(ids)
    IN  order_by_count_desc(
            {[region_id |-> rid,
              region_name |-> Region[rid].region_name,
              quake_count |-> count[rid],
              avg_quakes |-> [sum |-> total, count |-> n]] :
             rid \in {r \in ids \cap DOMAIN Region : count[r] * n > total}})

\* get_multi_criteria_quakes: the three-way join, the four filters, and the
\* order as the sequence of groups of rows equal in magnitude and datetime.
get_multi_criteria_quakes(min_magnitude, min_risk_level, min_population) ==
    LET ks == {k \in region_join \cap zone_join :
                  /\ Earthquake[k].magnitude >= min_magnitude
                  /\ SeismicZone[Earthquake[k].zone_id].risk_level >= min_risk_level
                  /\ Region[Earthquake[k].region_id].population # None
                  /\ Region[Earthquake[k].region_id].population >= min_population}
        gs == order_by_magnitude_datetime_desc(ks)
    IN  [g \in DOMAIN gs |->
            {[quake |-> quake_record(k),
              region_name |-> Region[Earthquake[k].region_id].region_name,
              population |-> Region[Earthquake[k].region_id].population,
              zone_name |-> SeismicZone[Earthquake[k].zone_id].zone_name,
              risk_level |-> SeismicZone[Earthquake[k].zone_id].risk_level] :
             k \in gs[g]}]

\* get_quakes_in_high_population_regions: the lists the call may return.
get_quakes_in_high_population_regions(min_population) ==
    LET ks == {k \in region_join :
                  /\ Region[Earthquake[k].region_id].population # None
                  /\ Region[Earthquake[k].region_id].population >= min_population}
    IN  order_by_count_desc(
            {[region_id |-> rid,
              region_name |-> Region[rid].region_name,
              population |-> Region[rid].population,
              quake_count |-> Cardinality({k \in ks : Earthquake[k].region_id = rid})] :
             rid \in {Earthquake[k].region_id : k \in ks}})

\* get_region_risk_summary: one row per (region, zone) group of the region's
\* quakes; the statement has no ORDER BY, so every order of the groups is a
\* list the call may return.
get_region_risk_summary(region_id) ==
    LET ks == {k \in region_join \cap zone_join : Earthquake[k].region_id = region_id}
        of_zone(zid) == {k \in ks : Earthquake[k].zone_id = zid}
    IN  Perms({[region_id |-> region_id,
                region_name |-> Region[region_id].region_name,
                country |-> Region[region_id].country,
                population |-> Region[region_id].population,
                zone_id |-> zid,
                zone_name |-> SeismicZone[zid].zone_name,
                risk_level |-> SeismicZone[zid].risk_level,
                quake_count |-> Cardinality(of_zone(zid)),
                avg_magnitude |-> avg_magnitude_of(of_zone(zid)),
                max_magnitude |-> max_magnitude_of(of_zone(zid))] :
               zid \in {Earthquake[k].zone_id : k \in ks}})

\* --------------------------------------------------------------- API layer

storeVars == <<Region, SeismicZone, Earthquake>>

loaderRunVars == <<pending, pc, feed, features, idx, runs, before, completed>>

\* The fields of the response models.
AvgMagnitudeResponse == {"region_id", "region_name", "avg_magnitude"}

NearbyCountResponse == {"quake_count"}

RegionRiskSummary ==
    {"region_id", "region_name", "zone_name", "risk_level", "total_quakes",
     "avg_magnitude", "max_magnitude"}

\* What FastAPI answers when a handler declared with response_model returns
\* content: a list, or an object lacking a field of the model, fails the
\* response validation (500); otherwise the object is answered, cut to the
\* fields of the model.
response_model(fields, content) ==
    IF content.is_list THEN [status |-> 500, body |-> <<>>]
    ELSE IF ~(fields \subseteq DOMAIN content.rows[1])
         THEN [status |-> 500, body |-> <<>>]
         ELSE [status |-> 200,
               body |-> <<[f \in fields |-> content.rows[1][f]]>>]

\* raise HTTPException(status_code=404, ...)
HTTPException404 == [status |-> 404, body |-> <<>>]

\* A call that deletes the rows it has read.
query_call_deleting(name, args, lists) ==
    /\ call' = [name |-> name, args |-> args]
    /\ \E r \in lists : result' = r
    /\ response' = [status |-> 0, body |-> <<>>]
    /\ Earthquake' = <<>>
    /\ UNCHANGED <<Region, SeismicZone, inflight, sessions>>
    /\ UNCHANGED loaderRunVars
    /\ UNCHANGED classifierVars

\* One call of a query-layer function on the store as it is: lists are the
\* lists the call may return.
query_call(name, args, lists) ==
    /\ call' = [name |-> name, args |-> args]
    /\ \E r \in lists : result' = r
    /\ response' = [status |-> 0, body |-> <<>>]
    /\ UNCHANGED <<inflight, sessions>>
    /\ UNCHANGED storeVars
    /\ UNCHANGED loaderRunVars
    /\ UNCHANGED classifierVars

\* One request to an endpoint: content is what the handler returns, or
\* nothing when it raises the 404.
api_call(name, args, found, content, fields) ==
    /\ call' = [name |-> name, args |-> args]
    /\ IF found
       THEN /\ result' = content
            /\ response' = response_model(fields, content)
       ELSE /\ result' = [is_list |-> FALSE, rows |-> <<>>]
            /\ response' = HTTPException404
    /\ UNCHANGED <<inflight, sessions>>
    /\ UNCHANGED storeVars
    /\ UNCHANGED loaderRunVars
    /\ UNCHANGED classifierVars

QQuakesInRegion ==
    \E region_id \in QueryRegionIds :
        query_call("get_quakes_in_region", <<region_id>>,
                   {get_quakes_in_region(region_id)})

QAvgMagnitude ==
    \E region_id \in QueryRegionIds :
        query_call("get_avg_magnitude_in_region", <<region_id>>,
                   {get_avg_magnitude_in_region(region_id)})

QNearLocation ==
    \E lon_center \in {-120, -118}, lat_delta \in 1..2, lon_delta \in 1..2 :
        query_call("count_quakes_near_location",
                   <<40, lon_center, lat_delta, lon_delta>>,
                   {count_quakes_near_location(40, lon_center, lat_delta, lon_delta)})

QMostActive ==
    \E top_n \in {1, 5} :
        query_call("get_most_active_regions", <<top_n>>,
                   get_most_active_regions(top_n))

QHighMagnitude ==
    \E min_magnitude \in {5, 6}, end_date \in {0, 1}, limit \in {1, 50} :
        query_call("get_high_magnitude_quakes",
                   <<min_magnitude, 0, end_date, limit>>,
                   get_high_magnitude_quakes(min_magnitude, 0, end_date, limit))

QMinQuakes ==
    \E min_quakes \in 0..3 :
        query_call("get_regions_with_min_quakes", <<min_quakes>>,
                   get_regions_with_min_quakes(min_quakes))

QAboveAverage ==
    query_call("get_regions_above_average_quakes", <<>>,
               get_regions_above_average_quakes)

QMultiCriteria ==
    \E min_magnitude \in {5, 6}, min_risk_level \in {2, 5} :
        query_call("get_multi_criteria_quakes",
                   <<min_magnitude, min_risk_level, 100000000>>,
                   {get_multi_criteria_quakes(min_magnitude, min_risk_level,
                                              100000000)})

QHighPopulation ==
    \E min_population \in {10000000, 100000000} :
        query_call("get_quakes_in_high_population_regions", <<min_population>>,
                   get_quakes_in_high_population_regions(min_population))

QRiskSummary ==
    \E region_id \in QueryRegionIds :
        query_call("get_region_risk_summary", <<region_id>>,
                   get_region_risk_summary(region_id))

\* api_avg_magnitude: 404 on an empty result, otherwise the handler runs the
\* query again and returns its list.
api_avg_magnitude ==
    \E region_id \in QueryRegionIds :
        LET results == get_avg_magnitude_in_region(region_id) IN
        api_call("api_avg_magnitude", <<region_id>>, results # <<>>,
                 [is_list |-> TRUE, rows |-> get_avg_magnitude_in_region(region_id)],
                 AvgMagnitudeResponse)

\* api_quakes_near_location: radius_km is passed as lat_delta, lon_delta keeps
\* its default 1.0; the list is never empty, and results[0] is returned.
api_quakes_near_location ==
    \E lon0 \in {-120, -118}, radius_km \in 1..2 :
        LET results == count_quakes_near_location(40, lon0, radius_km, 1) IN
        api_call("api_quakes_near_location", <<40, lon0, radius_km>>, TRUE,
                 [is_list |-> FALSE, rows |-> <<results[1]>>],
                 NearbyCountResponse)

\* api_region_risk_summary: 404 on an empty result, otherwise results[0].
api_region_risk_summary ==
    \E region_id \in QueryRegionIds :
        \E results \in get_region_risk_summary(region_id) :
            api_call("api_region_risk_summary", <<region_id>>, results # <<>>,
                     [is_list |-> FALSE, rows |-> SubSeq(results, 1, 1)],
                     RegionRiskSummary)

\* ---------------------------------------------------------- specifications

Init ==
    /\ \E n \in 0..MaxLegacy :
          /\ Region = [id \in 1..n |-> LegacyRegion(id)]
          /\ SeismicZone = [id \in 1..n |-> LegacyZone(id)]
    /\ Earthquake = <<>>
    /\ pending = <<>>
    /\ pc = "start"
    /\ feed \in SeqsUpTo(FeedFeatures, MaxBatch)
    /\ features = <<>>
    /\ idx = 1
    /\ runs = 0
    /\ before = <<>>
    /\ result = <<>>
    /\ lat = 0
    /\ lon = 0
    /\ calls = 0
    /\ ret_region = <<>>
    /\ ret_zone = <<>>
    /\ completed = 0
    /\ call = [name |-> "none", args |-> <<>>]
    /\ response = [status |-> 0, body |-> <<>>]
    /\ inflight = <<>>
    /\ sessions = {}

Next ==
    \/ Seed
    \/ RequestFails
    \/ RequestOk
    \/ SkipFeature
    \/ InsertFeature
    \/ FailFeature
    \/ Commit
    \/ NextRun
    \/ QuakesInRegion

Spec == Init /\ [][Next]_vars

\* The two classifications of lines 252-253, applied to one point.
Classify ==
    /\ calls < MaxCalls
    /\ calls' = calls + 1
    /\ ret_region' = Append(ret_region, classify_region(lat, lon))
    /\ ret_zone' = Append(ret_zone, classify_zone(lat, lon))
    /\ UNCHANGED <<lat, lon>>
    /\ UNCHANGED loaderVars
    /\ UNCHANGED queryVars

InitClassify ==
    /\ lat \in -MaxLat..MaxLat
    /\ lon \in -MaxLonWest..MaxLonEast
    /\ calls = 0
    /\ ret_region = <<>>
    /\ ret_zone = <<>>
    /\ Region = [id \in DOMAIN RegionSeed |-> RegionSeed[id]]
    /\ SeismicZone = [id \in DOMAIN ZoneSeed |-> ZoneSeed[id]]
    /\ Earthquake = <<>>
    /\ pending = <<>>
    /\ pc = "start"
    /\ feed = <<>>
    /\ features = <<>>
    /\ idx = 1
    /\ runs = 0
    /\ before = <<>>
    /\ result = <<>>
    /\ completed = 0
    /\ call = [name |-> "none", args |-> <<>>]
    /\ response = [status |-> 0, body |-> <<>>]
    /\ inflight = <<>>
    /\ sessions = {}

NextClassify == Classify

SpecClassify == InitClassify /\ [][NextClassify]_vars

\* ------------------------------------------------ the query specification

\* Valid features of four kinds: one in region 1 (zone 1), two in region 3
\* (zone 2 on the second day, and zone 10), one in region 4 (zone 3).
QueryFeatures ==
    << Feature(TRUE, <<-120, 40, 10>>, 5, 1500, <<"Ridgecrest", ",", "CA">>),
       Feature(TRUE, <<135, 30, 30>>, 7, 90000000, <<"Honshu">>),
       Feature(TRUE, <<165, 30, 35>>, 6, 2999, <<>>),
       Feature(TRUE, <<-70, -30, 50>>, 5, 1500, <<"Coquimbo", ",", "Chile">>) >>

Repeat(x, n) == [i \in 1..n |-> x]

\* The feeds of up to MaxRows features of these kinds, kind by kind.
QueryFeeds ==
    {Repeat(QueryFeatures[1], n[1]) \o Repeat(QueryFeatures[2], n[2])
        \o Repeat(QueryFeatures[3], n[3]) \o Repeat(QueryFeatures[4], n[4]) :
     n \in {m \in [1..4 -> 0..MaxRows] : m[1] + m[2] + m[3] + m[4] <= MaxRows}}

\* A store the loader has seeded and loaded from one of these feeds.
InitQuery ==
    /\ Region = insert_or_ignore(<<>>, RegionSeed)
    /\ SeismicZone = insert_or_ignore(<<>>, ZoneSeed)
    /\ \E fs \in QueryFeeds :
          Earthquake = [k \in 1..Len(fs) |-> earthquake_row(fs[k])]
    /\ pending = <<>>
    /\ pc = "done"
    /\ feed = <<>>
    /\ features = <<>>
    /\ idx = 1
    /\ runs = 1
    /\ before = <<>>
    /\ result = <<>>
    /\ lat = 0
    /\ lon = 0
    /\ calls = 0
    /\ ret_region = <<>>
    /\ ret_zone = <<>>
    /\ completed = 1
    /\ call = [name |-> "none", args |-> <<>>]
    /\ response = [status |-> 0, body |-> <<>>]
    /\ inflight = <<>>
    /\ sessions = {}

NextQuery ==
    \/ QQuakesInRegion
    \/ QAvgMagnitude
    \/ QNearLocation
    \/ QMostActive
    \/ QHighMagnitude
    \/ QMinQuakes
    \/ QAboveAverage
    \/ QMultiCriteria
    \/ QHighPopulation
    \/ QRiskSummary
    \/ api_avg_magnitude
    \/ api_quakes_near_location
    \/ api_region_risk_summary

SpecQuery == InitQuery /\ [][NextQuery]_vars

\* ---------------------------------------------- the session specification

\* The calls in flight, each at a place of its function: "called" before the
\* with statement, "in_with" with its session open, "leaving" when the body
\* has returned or raised and __exit__ is to run, "ended" after it.
\* sessions is the set of open sessions, named by the call that opened them.

sessionFrame ==
    /\ UNCHANGED storeVars
    /\ UNCHANGED loaderRunVars
    /\ UNCHANGED classifierVars
    /\ UNCHANGED <<result, call, response>>

\* A request thread calls a query function.
CallQuery ==
    /\ Len(inflight) < MaxRequests
    /\ \E c \in {[name |-> "get_quakes_in_region", args |-> <<1>>],
                 [name |-> "get_quakes_in_region", args |-> <<10>>],
                 [name |-> "get_regions_above_average_quakes", args |-> <<>>]} :
          inflight' = Append(inflight,
                             [name |-> c.name, args |-> c.args,
                              at |-> "called", outcome |-> "none"])
    /\ UNCHANGED sessions
    /\ sessionFrame

\* with Session(engine) as session: the call opens a session of its own.
EnterSession ==
    \E i \in DOMAIN inflight :
        /\ inflight[i].at = "called"
        /\ inflight' = [inflight EXCEPT ![i].at = "in_with"]
        /\ sessions' = sessions \cup {i}
        /\ sessionFrame

\* The rows the body of the call builds from the store.
rows_of(c) ==
    IF c.name = "get_quakes_in_region"
    THEN get_quakes_in_region(c.args[1])
    ELSE CHOOSE r \in get_regions_above_average_quakes : TRUE

\* session.exec(...).all() succeeds and the return statement is reached, with
\* rows or with the empty list.
ExecReturns ==
    \E i \in DOMAIN inflight :
        /\ inflight[i].at = "in_with"
        /\ inflight' = [inflight EXCEPT
               ![i].at = "leaving",
               ![i].outcome = IF rows_of(inflight[i]) = <<>>
                              THEN "empty" ELSE "rows"]
        /\ UNCHANGED sessions
        /\ sessionFrame

\* session.exec raises (the database is locked or unreachable).
ExecRaises ==
    \E i \in DOMAIN inflight :
        /\ inflight[i].at = "in_with"
        /\ inflight' = [inflight EXCEPT ![i].at = "leaving",
                                        ![i].outcome = "error"]
        /\ UNCHANGED sessions
        /\ sessionFrame

\* The session is closed on return only; an exception leaves it open.
ExitSessionOnReturnOnly ==
    \E i \in DOMAIN inflight :
        /\ inflight[i].at = "leaving"
        /\ inflight' = [inflight EXCEPT ![i].at = "ended"]
        /\ sessions' = IF inflight[i].outcome = "error"
                       THEN sessions ELSE sessions \ {i}
        /\ sessionFrame

\* Session.__exit__ closes the session, on return and on an exception alike.
ExitSession ==
    \E i \in DOMAIN inflight :
        /\ inflight[i].at = "leaving"
        /\ inflight' = [inflight EXCEPT ![i].at = "ended"]
        /\ sessions' = sessions \ {i}
        /\ sessionFrame

\* A seeded store, empty or with the rows of two features of one region.
InitSession ==
    /\ Region = insert_or_ignore(<<>>, RegionSeed)
    /\ SeismicZone = insert_or_ignore(<<>>, ZoneSeed)
    /\ \E fs \in {<<>>, <<QueryFeatures[1], QueryFeatures[1]>>} :
          Earthquake = [k \in 1..Len(fs) |-> earthquake_row(fs[k])]
    /\ pending = <<>>
    /\ pc = "done"
    /\ feed = <<>>
    /\ features = <<>>
    /\ idx = 1
    /\ runs = 1
    /\ before = <<>>
    /\ result = <<>>
    /\ lat = 0
    /\ lon = 0
    /\ calls = 0
    /\ ret_region = <<>>
    /\ ret_zone = <<>>
    /\ completed = 1
    /\ call = [name |-> "none", args |-> <<>>]
    /\ response = [status |-> 0, body |-> <<>>]
    /\ inflight = <<>>
    /\ sessions = {}

NextSession ==
    \/ CallQuery
    \/ EnterSession
    \/ ExecReturns
    \/ ExecRaises
    \/ ExitSession

SpecSession == InitSession /\ [][NextSession]_vars

\* ------------------------------------------------------------------ claims

\* The ordered box tables, as data: id, inclusive latitude range (lat_half = 1
\* adds half a degree to lat_max) and inclusive longitude ranges.
Box(id, lat_min, lat_max, lat_half, lons) ==
    [id |-> id, lat_min |-> lat_min, lat_max |-> lat_max,
     lat_half |-> lat_half, lons |-> lons]

RegionBoxes ==
    <<Box(1, 30, 42, 0, {<<-130, -110>>}),
      Box(2, 50, 72, 0, {<<-180, -130>>}),
      Box(3, 30, 65, 0, {<<135, 170>>}),
      Box(4, -60, -15, 0, {<<-80, -65>>}),
      Box(5, -15, 15, 0, {<<95, 155>>}),
      Box(6, -60, -10, 0, {<<155, 180>>, <<-180, -160>>}),
      Box(7, 30, 46, 0, {<<-10, 40>>}),
      Box(8, 20, 45, 0, {<<60, 115>>}),
      Box(9, -40, 70, 0, {<<-50, -10>>})>>

ZoneBoxes ==
    <<Box(1, 30, 72, 1, {<<-150, -110>>}),
      Box(2, 30, 50, 0, {<<130, 160>>}),
      Box(3, -60, 5, 0, {<<-90, -60>>}),
      Box(4, -15, 10, 0, {<<90, 150>>}),
      Box(5, -50, -30, 0, {<<160, 180>>}),
      Box(6, 25, 50, 0, {<<-10, 40>>}),
      Box(7, 20, 40, 0, {<<70, 100>>}),
      Box(8, -60, 60, 0, {<<-40, -10>>}),
      Box(9, 45, 60, 0, {<<145, 175>>})>>

InBox(b, lat0, lon0) ==
    /\ b.lat_min <= lat0
    /\ 2 * lat0 <= 2 * b.lat_max + b.lat_half
    /\ \E r \in b.lons : r[1] <= lon0 /\ lon0 <= r[2]

FirstMatch(boxes, lat0, lon0) ==
    LET hits == {k \in DOMAIN boxes : InBox(boxes[k], lat0, lon0)} IN
    IF hits = {} THEN 10
    ELSE boxes[CHOOSE k \in hits : \A j \in hits : k <= j].id

Normalized(lon0) == IF lon0 > 180 THEN lon0 - 360 ELSE lon0

\* C1: every call of classify_region and classify_zone returns, returns an id
\* in 1..10 that is a seeded Region (SeismicZone) id, and repeated calls on the
\* same point return the same id.
C1_ClassifiersTotalAndDeterministic ==
    /\ Len(ret_region) = calls
    /\ Len(ret_zone) = calls
    /\ \A k \in DOMAIN ret_region :
          /\ ret_region[k] \in 1..10
          /\ ret_region[k] \in DOMAIN RegionSeed
          /\ ret_region[k] \in DOMAIN Region
          /\ ret_region[k] = ret_region[1]
    /\ \A k \in DOMAIN ret_zone :
          /\ ret_zone[k] \in 1..10
          /\ ret_zone[k] \in DOMAIN ZoneSeed
          /\ ret_zone[k] \in DOMAIN SeismicZone
          /\ ret_zone[k] = ret_zone[1]

C1_Witness ==
    /\ calls = 2
    /\ lat = 55
    /\ lon = 165
    /\ ret_region = <<3, 3>>
    /\ ret_zone = <<9, 9>>

\* C2: classify_region returns the id of the first box of the region table, in
\* the order 1..9, that contains the point after the longitude shift, and 10
\* when no box does; a point on an edge shared by two boxes gets the earlier
\* box.
C2_RegionIsFirstMatch ==
    \A k \in DOMAIN ret_region :
        /\ ret_region[k] = FirstMatch(RegionBoxes, lat, Normalized(lon))
        /\ (lat = 30 /\ lon = -110) => ret_region[k] = 1
        /\ (lat = 40 /\ lon = -10) => ret_region[k] = 7
        /\ (lat = -12 /\ lon = 155) => ret_region[k] = 5

C2_Witness ==
    /\ calls >= 1
    /\ lat = 40
    /\ lon = -10
    /\ InBox(RegionBoxes[7], lat, lon)
    /\ InBox(RegionBoxes[9], lat, lon)
    /\ ret_region[1] = 7

\* C3: classify_zone returns the id of the first box of the zone table, in the
\* order 1..9, that contains the point, and 10 when no box does; a point in
\* the overlap of box 2 and box 9 (lat 45..50, lon 145..160) is zone 2.
C3_ZoneIsFirstMatch ==
    \A k \in DOMAIN ret_zone :
        /\ ret_zone[k] = FirstMatch(ZoneBoxes, lat, lon)
        /\ (lat \in 45..50 /\ lon \in 145..160) => ret_zone[k] = 2

C3_Witness ==
    /\ calls >= 1
    /\ lat = 47
    /\ lon = 150
    /\ InBox(ZoneBoxes[2], lat, lon)
    /\ InBox(ZoneBoxes[9], lat, lon)
    /\ ret_zone[1] = 2

\* C4: for every latitude and every longitude in -180..180, both ends
\* included, classify_region(lat, lon + 360) equals classify_region(lat, lon).
C4_ShiftBy360Invariant ==
    (calls >= 1 /\ lon \in -180..180)
        => classify_region(lat, lon + 360) = ret_region[1]

\* C5: a run of seed_lookup_tables never changes a row that exists, and once
\* it has run, a further run leaves Region and SeismicZone as they are.
C5_SeedIdempotentNeverOverwrites ==
    [][(pc = "start" /\ pc' = "seeded") =>
          /\ \A id \in DOMAIN Region :
                id \in DOMAIN Region' /\ Region'[id] = Region[id]
          /\ \A id \in DOMAIN SeismicZone :
                id \in DOMAIN SeismicZone' /\ SeismicZone'[id] = SeismicZone[id]
          /\ runs >= 1 => (Region' = Region /\ SeismicZone' = SeismicZone)]_vars

C5_Witness ==
    /\ runs = 2
    /\ pc = "seeded"
    /\ Region[1] = LegacyRegion(1)
    /\ Region[1] # RegionSeed[1]
    /\ SeismicZone[1] = LegacyZone(1)
    /\ Region[2] = RegionSeed[2]
    /\ DOMAIN Region = 1..10
    /\ DOMAIN SeismicZone = 1..10

\* The features the claims call valid: coordinates present with at least 3
\* components, and magnitude, time, latitude and longitude present.
ClaimValid(feature) ==
    /\ feature.has_coordinates
    /\ Len(feature.coordinates) >= 3
    /\ feature.mag # None
    /\ feature.time # None
    /\ feature.coordinates[2] # None
    /\ feature.coordinates[1] # None

\* C6: a successful load run adds exactly one Earthquake row for each valid
\* feature of the batch, in order, and none for any other feature; each row
\* carries region_id = classify_region(lat, lon) and zone_id =
\* classify_zone(lat, lon).
C6_OneRowPerValidFeature ==
    pc = "done" =>
        LET valid == SelectSeq(features, ClaimValid) IN
        /\ Len(Earthquake) = Len(before) + Len(valid)
        /\ \A k \in 1..Len(before) : Earthquake[k] = before[k]
        /\ \A k \in 1..Len(valid) :
              LET row == Earthquake[Len(before) + k]
                  lon0 == valid[k].coordinates[1]
                  lat0 == valid[k].coordinates[2]
              IN  /\ row.latitude = lat0
                  /\ row.longitude = lon0
                  /\ row.magnitude = valid[k].mag
                  /\ row.region_id = classify_region(lat0, lon0)
                  /\ row.zone_id = classify_zone(lat0, lon0)

C6_Witness ==
    /\ pc = "done"
    /\ Len(features) = 3
    /\ ClaimValid(features[1])
    /\ features[2].mag = None
    /\ features[2].has_coordinates
    /\ Len(features[2].coordinates) = 3
    /\ ClaimValid(features[3])
    /\ Len(Earthquake) = Len(before) + 2
    /\ Earthquake[Len(before) + 2].region_id = 1
    /\ Earthquake[Len(before) + 2].zone_id = 10

\* C7: whatever features of the batch are malformed (coordinates absent or
\* short, or magnitude, time, latitude, longitude or depth null), the run ends
\* by committing one row for every well-formed feature.
C7_MalformedNeverFatal ==
    pc \in {"done", "crashed"} =>
        LET wellFormed(f) == ClaimValid(f) /\ f.coordinates[3] # None IN
        /\ pc = "done"
        /\ Len(Earthquake) = Len(before) + Len(SelectSeq(features, wellFormed))

\* C8: when a run fails at a feature, none of the rows it inserted is
\* persisted: the Earthquake table is what it was before the run.
C8_FailedRunPersistsNothing ==
    /\ pc = "crashed" => (Earthquake = before /\ pending = <<>>)
    /\ pc = "loop" => Earthquake = before

C8_Witness ==
    /\ pc = "crashed"
    /\ idx = 3
    /\ ClaimValid(features[1]) /\ features[1].coordinates[3] # None
    /\ ClaimValid(features[2]) /\ features[2].coordinates[3] # None
    /\ ClaimValid(features[3]) /\ features[3].coordinates[3] = None
    /\ pending = <<>>
    /\ Earthquake = before

\* C9: when the feed request fails the run has ended with an error, the
\* Earthquake table is what it was before the run, and every seeded Region and
\* SeismicZone id is committed.
C9_RequestFailureKeepsSeeds ==
    pc = "request_failed" =>
        /\ Earthquake = before
        /\ pending = <<>>
        /\ \A id \in DOMAIN RegionSeed :
              /\ id \in DOMAIN Region
              /\ Region[id] \in {RegionSeed[id], LegacyRegion(id)}
        /\ \A id \in DOMAIN ZoneSeed :
              /\ id \in DOMAIN SeismicZone
              /\ SeismicZone[id] \in {ZoneSeed[id], LegacyZone(id)}

C9_Witness ==
    /\ pc = "request_failed"
    /\ runs = 2
    /\ Region[1] = LegacyRegion(1)
    /\ Region[10] = RegionSeed[10]
    /\ SeismicZone[10] = ZoneSeed[10]
    /\ Len(Earthquake) = 2
    /\ Earthquake = before

\* C10: every Earthquake row of the store carries a region_id and a zone_id
\* that are not None and are the classifications of the row's own latitude
\* and longitude, and no step changes these fields of an existing row.
C10_IdsAreClassificationsAndStable ==
    /\ [](\A k \in DOMAIN Earthquake :
            /\ Earthquake[k].region_id # None
            /\ Earthquake[k].zone_id # None
            /\ Earthquake[k].region_id
                 = classify_region(Earthquake[k].latitude, Earthquake[k].longitude)
            /\ Earthquake[k].zone_id
                 = classify_zone(Earthquake[k].latitude, Earthquake[k].longitude))
    /\ [][\A k \in DOMAIN Earthquake :
            /\ k \in DOMAIN Earthquake'
            /\ Earthquake'[k].region_id = Earthquake[k].region_id
            /\ Earthquake'[k].zone_id = Earthquake[k].zone_id
            /\ Earthquake'[k].latitude = Earthquake[k].latitude
            /\ Earthquake'[k].longitude = Earthquake[k].longitude]_vars

C10_Witness ==
    /\ runs = 2
    /\ pc = "done"
    /\ Len(Earthquake) = 4
    /\ Earthquake[1].longitude = 240
    /\ Earthquake[1].region_id = 1
    /\ Earthquake[1].zone_id = 10
    /\ Earthquake[2].longitude = -120
    /\ Earthquake[2].zone_id = 1
    /\ result # <<>>

\* Number of Earthquake rows of a region.
CountOf(rid) == Cardinality({k \in DOMAIN Earthquake : Earthquake[k].region_id = rid})

CountDescending(rows) ==
    \A i \in 1..(Len(rows) - 1) : rows[i].quake_count >= rows[i + 1].quake_count

RowsAreRegions(rows, rids) ==
    /\ {rows[i].region_id : i \in DOMAIN rows} = rids
    /\ Len(rows) = Cardinality(rids)
    /\ \A i \in DOMAIN rows : rows[i].quake_count = CountOf(rows[i].region_id)

\* C11: get_regions_with_min_quakes(m) returns exactly the regions with more
\* than m Earthquake rows, each once with its count, by count descending; so a
\* region with exactly m rows is absent for m and present for m - 1.
C11_MinQuakesIsStrict ==
    call.name = "get_regions_with_min_quakes" =>
        /\ RowsAreRegions(result, {rid \in DOMAIN Region : CountOf(rid) > call.args[1]})
        /\ CountDescending(result)
        /\ \A rid \in DOMAIN Region :
              CountOf(rid) = call.args[1] + 1 =>
                  \E i \in DOMAIN result : result[i].region_id = rid

\* The call for m = 2 on a store where one region has exactly 2 rows and
\* another has more.
C11_Witness ==
    /\ call = [name |-> "get_regions_with_min_quakes", args |-> <<2>>]
    /\ \E rid \in DOMAIN Region : CountOf(rid) = 2
    /\ result # <<>>

\* The call for m - 1 = 1 returns the region that has exactly 2 rows.
C11_WitnessPresent ==
    /\ call = [name |-> "get_regions_with_min_quakes", args |-> <<1>>]
    /\ \E i \in DOMAIN result : result[i].quake_count = 2

CountedRegions == {rid \in DOMAIN Region : CountOf(rid) >= 1}

\* C12: get_regions_above_average_quakes returns exactly the regions whose
\* count exceeds the mean of the counts of the regions that have a quake
\* (count * number of such regions > number of rows), by count descending; when
\* the counts are all equal the result is empty.
C12_AboveAverageOverCountedRegions ==
    call.name = "get_regions_above_average_quakes" =>
        LET n == Cardinality(CountedRegions)
            total == SumOf([rid \in CountedRegions |-> CountOf(rid)], CountedRegions)
        IN  /\ RowsAreRegions(result,
                   {rid \in CountedRegions : CountOf(rid) * n > total})
            /\ CountDescending(result)
            /\ Cardinality({CountOf(rid) : rid \in CountedRegions}) <= 1
                   => result = <<>>

\* Three regions with counts 1, 2 and 3: the mean is 2 and only the region
\* with 3 rows is returned.
C12_Witness ==
    /\ call.name = "get_regions_above_average_quakes"
    /\ Cardinality(CountedRegions) = 3
    /\ {CountOf(rid) : rid \in CountedRegions} = {1, 2, 3}
    /\ Len(result) = 1
    /\ result[1].quake_count = 3

\* C13: for a region_id without Earthquake rows, in Region or not, the
\* avg-magnitude and risk-summary queries return the empty list, and the two
\* endpoints answer 404 without a record.
C13_NoQuakesIsNotFound ==
    /\ /\ call.name \in {"get_avg_magnitude_in_region", "get_region_risk_summary"}
       /\ CountOf(call.args[1]) = 0
       => result = <<>>
    /\ /\ call.name \in {"api_avg_magnitude", "api_region_risk_summary"}
       /\ CountOf(call.args[1]) = 0
       => response = [status |-> 404, body |-> <<>>]

\* The risk-summary endpoint asked for a seeded region that has no quakes, in
\* a store that has quakes of other regions.
C13_Witness ==
    /\ call = [name |-> "api_region_risk_summary", args |-> <<10>>]
    /\ Earthquake # <<>>
    /\ response.status = 404

\* The avg-magnitude query asked for an id that is not in Region.
C13_WitnessUnknownRegion ==
    /\ call = [name |-> "get_avg_magnitude_in_region", args |-> <<11>>]
    /\ 11 \notin DOMAIN Region
    /\ Earthquake # <<>>
    /\ result = <<>>

\* C14: the nearby endpoint with centre (lat, lon) and extent D = radius_km
\* answers the number of Earthquake rows with latitude in [lat-D, lat+D] and
\* longitude in [lon-D, lon+D], 0 when there is none.
C14_NearbySameExtentBothAxes ==
    call.name = "api_quakes_near_location" =>
        LET lat0 == call.args[1]
            lon0 == call.args[2]
            D == call.args[3]
        IN  response =
              [status |-> 200,
               body |-> <<[quake_count |->
                   Cardinality({k \in DOMAIN Earthquake :
                       /\ lat0 - D <= Earthquake[k].latitude
                       /\ Earthquake[k].latitude <= lat0 + D
                       /\ lon0 - D <= Earthquake[k].longitude
                       /\ Earthquake[k].longitude <= lon0 + D})]>>]

\* C15: for a region with an Earthquake row the avg-magnitude and the
\* risk-summary endpoints answer one record object that has every field of the
\* response model.
C15_SingleRecordWithModelFields ==
    /\ /\ call.name = "api_avg_magnitude"
       /\ CountOf(call.args[1]) >= 1
       => /\ response.status = 200
          /\ Len(response.body) = 1
          /\ DOMAIN response.body[1] = AvgMagnitudeResponse
    /\ /\ call.name = "api_region_risk_summary"
       /\ CountOf(call.args[1]) >= 1
       => /\ response.status = 200
          /\ Len(response.body) = 1
          /\ DOMAIN response.body[1] = RegionRiskSummary

\* C16: no step of a query operation changes Region, SeismicZone or Earthquake.
C16_QueriesLeaveTablesUnchanged ==
    [][storeVars' = storeVars]_vars

\* A query has returned the empty list on a store that has rows.
C16_Witness ==
    /\ call.name = "get_multi_criteria_quakes"
    /\ result = <<>>
    /\ Len(Earthquake) = MaxRows

\* C20: the record the risk-summary handler returns for a region with quakes
\* counts all Earthquake rows of the region and carries the largest of their
\* magnitudes, also when the rows are in more than one seismic zone.
C20_RiskSummaryCoversWholeRegion ==
    /\ call.name = "api_region_risk_summary"
    /\ CountOf(call.args[1]) >= 1
    => /\ Len(result.rows) = 1
       /\ result.rows[1].quake_count = CountOf(call.args[1])
       /\ \A k \in DOMAIN Earthquake :
             Earthquake[k].region_id = call.args[1]
                 => Earthquake[k].magnitude <= result.rows[1].max_magnitude

\* C18: after the first successful load run no later run changes Region or
\* SeismicZone, and when the second successful run over the same feed has
\* committed, the Earthquake table is the table after the first run followed
\* by the same rows again: its row count is twice the count after the first.
C18_RerunIdempotentForLookupsOnly ==
    /\ [](pc = "done" /\ completed = 2 =>
            /\ Earthquake = before \o before
            /\ Len(Earthquake) = 2 * Len(before)
            /\ Len(before) = Cardinality({i \in DOMAIN feed : ClaimValid(feed[i])}))
    /\ [][completed >= 1 => Region' = Region /\ SeismicZone' = SeismicZone]_vars

\* Two successful runs over a feed with valid features, on a store that had a
\* lookup row of its own before the first run.
C18_Witness ==
    /\ pc = "done"
    /\ completed = 2
    /\ Len(before) >= 2
    /\ Len(Earthquake) = 2 * Len(before)
    /\ 1 \in DOMAIN Region
    /\ Region[1] = LegacyRegion(1)

\* C19: once a run has seeded, Region and SeismicZone hold all ten ids, and
\* that is before any insert of the run; every Earthquake row, committed or
\* in the open transaction, references a Region row and a SeismicZone row that
\* exist, whatever runs came before.
C19_SeededBeforeInsertNoDanglingKey ==
    /\ runs >= 1 =>
          /\ DOMAIN Region = 1..10
          /\ DOMAIN SeismicZone = 1..10
    /\ pc \in {"start", "seeded"} => pending = <<>>
    /\ runs = 0 => Earthquake = <<>>
    /\ \A k \in DOMAIN Earthquake :
          /\ Earthquake[k].region_id \in DOMAIN Region
          /\ Earthquake[k].zone_id \in DOMAIN SeismicZone
    /\ \A k \in DOMAIN pending :
          /\ pending[k].region_id \in DOMAIN Region
          /\ pending[k].zone_id \in DOMAIN SeismicZone

\* A run whose request failed, then a run that committed rows.
C19_Witness ==
    /\ pc = "done"
    /\ runs = 2
    /\ completed = 1
    /\ Earthquake # <<>>

\* C17: the open sessions are exactly those of the calls inside their with
\* block, one for each of them; a call that has ended, with rows, with the
\* empty list or with an error, holds none, so when every call in flight has
\* ended no session is open, in whatever order the calls took their steps.
C17_SessionPerCallAlwaysReleased ==
    /\ sessions = {i \in DOMAIN inflight : inflight[i].at \in {"in_with", "leaving"}}
    /\ (\A i \in DOMAIN inflight : inflight[i].at = "ended") => sessions = {}

\* Three calls have ended, one with rows, one with the empty list and one
\* with an error, and no session is open.
C17_Witness ==
    /\ Len(inflight) = 3
    /\ \A i \in DOMAIN inflight : inflight[i].at = "ended"
    /\ {inflight[i].outcome : i \in DOMAIN inflight} = {"rows", "empty", "error"}
    /\ sessions = {}

\* C22: classify_zone takes the longitude as it is given: for every latitude
\* and every longitude above 180 it returns 10.  So the point lat 40, lon 240
\* gets region 1 from classify_region, the region of lon -120, and zone 10,
\* while lat 40, lon -120 gets region 1 and zone 1.
C22_ZoneNotNormalized ==
    calls >= 1 =>
        /\ lon > 180 => ret_zone[1] = 10
        /\ lat = 40 /\ lon = 240 => ret_region[1] = 1 /\ ret_zone[1] = 10
        /\ lat = 40 /\ lon = -120 => ret_region[1] = 1 /\ ret_zone[1] = 1
        /\ lon > 180 /\ lon <= 540 /\ classify_zone(lat, lon - 360) # 10
              => ret_zone[1] # classify_zone(lat, lon - 360)

\* The two calls of the loop made for the point lat 40, lon 240.
C22_Witness ==
    /\ calls >= 1
    /\ lat = 40
    /\ lon = 240
    /\ ret_region[1] = 1
    /\ ret_zone[1] = 10
    /\ classify_zone(lat, lon - 360) = 1

\* The Earthquake table after the current run if it commits: the rows from
\* before the run, then one row for each valid feature of its batch.
WithWholeBatch ==
    LET valid == SelectSeq(features, ClaimValid) IN
    before \o [k \in 1..Len(valid) |-> earthquake_row(valid[k])]

\* The quake ids of the rows of a region in an Earthquake table.
RegionIds(table, region_id) ==
    {k \in DOMAIN table : table[k].region_id = region_id}

\* The quake ids of the rows a result of get_quakes_in_region holds.
SeenIds(res) == UNION {{r.quake_id : r \in res[g]} : g \in DOMAIN res}

\* C21: at every moment of a load run, from its seed to its end, the
\* committed Earthquake table, the one a query reads, is the table from before
\* the run or that table with the whole batch of the run, and the rows a query
\* step returns for its region are the rows of that region in one of these two
\* tables: never some of the batch without the rest.
C21_QueryNeverSeesPartialBatch ==
    /\ [](pc # "start" => Earthquake = before \/ Earthquake = WithWholeBatch)
    /\ [][pc # "start" /\ result' # result =>
            LET seen == SeenIds(result')
                whole == WithWholeBatch
            IN  \E region_id \in QueryRegionIds :
                    \/ seen = RegionIds(before, region_id)
                    \/ seen = RegionIds(whole, region_id)]_vars

\* The second run holds rows in its open transaction, and the result of the
\* query is exactly the rows committed before that run.
C21_Witness ==
    /\ pc = "loop"
    /\ runs = 2
    /\ Len(before) >= 2
    /\ Len(pending) >= 1
    /\ Len(pending) < Len(SelectSeq(features, ClaimValid))
    /\ SeenIds(result) = DOMAIN before

====
